---- MODULE Spec2Model ----
(***************************************************************************)
(* Model of NightLightsProcessor (src/main.py): the spatial intersection   *)
(* test, the per-key filter task with its windowed sum, the thread fan-out *)
(* of filter_by_region, the partitioned process fan-out of                 *)
(* calculate_daily_radiation_sum and the download/merge pipeline of        *)
(* process.                                                                *)
(*                                                                         *)
(* Coordinates are integers and a raster pixel is a unit cell, so a box    *)
(* <<minx, miny, maxx, maxy>> covers maxx-minx by maxy-miny pixels.        *)
(***************************************************************************)
EXTENDS Integers, Sequences, FiniteSets, TLC

\* ------------------------------------------------------------------ bounds
MaxCoord == 3      \* box corners of the intersection test range over 0..MaxCoord
MaxKeys == 4       \* longest key list handed directly to filter_by_region
MaxFiles == 6      \* longest listing handed to calculate_daily_radiation_sum
MaxFail == 1       \* how many per-key tasks may raise in one run
MaxCalls == 3      \* how many times process is called
MaxTiffs == 2      \* how many .tif tiles one download can bring

VARIABLES
    raster_polygon,   \* intersected: box(*src.bounds)
    region_polygon,   \* intersected: box(*region_bounds)
    intersects,       \* intersected: the returned value
    bpc,              \* intersected: "idle" | "call" | "done"
    object_keys,      \* the candidate key list of the running call
    region_bounds,    \* the region box of the running call
    nodata,           \* the value the rasters store in their masked pixels
    task,             \* filter_by_region: per key, "none" | "pending" | "done"
    result,           \* filter_by_region: per key, what its future holds
    collected,        \* filter_by_region: the keys in the order the loop took their futures
    valid_files,      \* filter_by_region: the list being built
    processed_files,  \* filter_by_region: progress counter
    total_files,      \* filter_by_region: len(object_keys)
    fpc,              \* filter_by_region: where the calling thread is
    failed,           \* the keys whose task raised
    header_reads,     \* the keys whose raster was opened and its header read
    pixel_reads,      \* the keys for which a windowed pixel read was issued
    day_keys,         \* calculate_daily_radiation_sum: object_keys, the listing
    chunk_size,       \* calculate_daily_radiation_sum: round(n_files / n_workers)
    futures,          \* calculate_daily_radiation_sum: per submitted partition, its file_keys
    part,             \* per partition, "queued" | "running" | "done"
    part_result,      \* per finished partition, what its future holds
    taken,            \* the partitions whose future the loop has taken
    reordered,        \* a future was taken before one submitted earlier
    radiation_sum,    \* calculate_daily_radiation_sum: the accumulator
    dpc,              \* calculate_daily_radiation_sum: where the caller is
    inflight,         \* per started partition, the keys whose task has not completed
    submitted,        \* per started partition, the keys given to executor.submit
    dest_exists,      \* the directory destination_path exists
    dest_files,       \* the .tif files in destination_path: name -> "ok" | "corrupt"
    output,           \* the file output_filename in the working directory
    output_path,      \* the file os.path.join(destination_path, output_filename) exists
    outcome,          \* how the last combine_tiff_files call ended
    downloads,        \* how many recursive downloads were attempted
    merges,           \* how many times process invoked combine_tiff_files
    calls,            \* how many process and combine_tiff_files calls have ended
    produced,         \* a process call has ended with its output file written
    returned,         \* what the last process call returned
    ppc,              \* process: where the caller is
    listed,           \* combine_tiff_files: tiff_files, as the last call listed them
    deleting,         \* combine_tiff_files: the delete argument of the last call
    returncode,       \* download_files: "none" | "ok" | "error", how the download ended
    year,             \* calculate_monthly_radiation_sum: the year of date
    month,            \* calculate_monthly_radiation_sum: the month of date
    num_days,         \* calculate_monthly_radiation_sum: line 207
    day_futures,      \* calculate_monthly_radiation_sum: the days submitted, in order
    day_taken,        \* the days whose future the loop has taken
    day_failed,       \* the days whose daily task raised
    monthly_radiation_sum,  \* calculate_monthly_radiation_sum: the accumulator
    mpc               \* calculate_monthly_radiation_sum: where the caller is

boxvars == <<raster_polygon, region_polygon, intersects, bpc>>
filtervars == <<object_keys, region_bounds, nodata, task, result, collected,
                valid_files, processed_files, total_files, fpc, failed,
                header_reads, pixel_reads>>

dailyvars == <<day_keys, chunk_size, futures, part, part_result, taken, reordered,
               radiation_sum, dpc>>

processvars == <<dest_exists, dest_files, output, output_path, outcome, downloads,
                 merges, calls, produced, returned, ppc, listed, deleting,
                 returncode>>

poolvars == <<inflight, submitted>>

monthlyvars == <<year, month, num_days, day_futures, day_taken, day_failed,
                 monthly_radiation_sum, mpc>>

vars == <<boxvars, filtervars, dailyvars, poolvars, processvars, monthlyvars>>

\* What the steps of one operation leave alone: the state of the others.
notbox == <<filtervars, dailyvars, poolvars, processvars, monthlyvars>>
notfilter == <<boxvars, dailyvars, poolvars, processvars, monthlyvars>>
notdaily == <<boxvars, object_keys, task, result, collected, valid_files,
              processed_files, total_files, fpc, header_reads, pixel_reads, poolvars,
              processvars, monthlyvars>>
notpool == <<boxvars, object_keys, task, result, collected, valid_files,
             processed_files, total_files, fpc, header_reads, pixel_reads, processvars,
             monthlyvars>>
notprocess == <<boxvars, filtervars, dailyvars, poolvars, monthlyvars>>
notmonthly == <<boxvars, filtervars, dailyvars, poolvars, processvars>>

\* ------------------------------------------------------------- geometry
Coord == 0..MaxCoord

\* A box as shapely.geometry.box(minx, miny, maxx, maxy) takes it.
Boxes == {b \in Coord \X Coord \X Coord \X Coord : b[1] < b[3] /\ b[2] < b[4]}

Max(a, b) == IF a >= b THEN a ELSE b
Min(a, b) == IF a <= b THEN a ELSE b

\* Mutant: boxes that only touch are not reported.
intersected_open(src_bounds, region) ==
    /\ src_bounds[1] < region[3] /\ region[1] < src_bounds[3]
    /\ src_bounds[2] < region[4] /\ region[2] < src_bounds[4]

\* raster_polygon.intersects(region_polygon) for two rectangles: false exactly
\* when one lies strictly to one side of the other on some axis.
intersected(src_bounds, region) ==
    ~ \/ src_bounds[3] < region[1]
      \/ region[3] < src_bounds[1]
      \/ src_bounds[4] < region[2]
      \/ region[4] < src_bounds[2]

\* The point <<x, y>> lies in the closed box b.
InBox(b, x, y) == b[1] <= x /\ x <= b[3] /\ b[2] <= y /\ y <= b[4]

\* The two closed boxes have a point in common.  Corners are integers, so a
\* non-empty intersection always contains a point of the integer grid.
SharePoint(a, b) ==
    \E x \in Min(a[1], b[1])..Max(a[3], b[3]), y \in Min(a[2], b[2])..Max(a[4], b[4]) :
        InBox(a, x, y) /\ InBox(b, x, y)

\* ------------------------------------------------------- the raster tiles
TileSize == 2      \* a tile is TileSize x TileSize pixels
GridCols == 3      \* tiles per row of the planet-wide grid

\* src.bounds of the raster stored under a key: tile k of the grid.
Bounds(file_key) ==
    LET col == (file_key - 1) % GridCols
        row == (file_key - 1) \div GridCols
    IN  <<col * TileSize, row * TileSize, (col + 1) * TileSize, (row + 1) * TileSize>>

\* The pixel with lower-left corner <<x, y>> is a no-data pixel of the raster.
Masked(file_key, x, y) == (file_key + x + 2 * y) % 3 = 0

\* The radiance of a valid pixel.
Radiance(file_key, x, y) == ((file_key + 2 * x + y) % 4) + 1

\* What band 1 stores for a pixel: the no-data value where it is masked.
Stored(file_key, x, y) ==
    IF Masked(file_key, x, y) THEN nodata ELSE Radiance(file_key, x, y)

\* src.window(*region_bounds) limited to the raster's extent: the pixels of
\* the raster that lie inside the region box (none when the boxes only touch).
Window(file_key, region) ==
    LET b == Bounds(file_key)
    IN  {c \in (Max(b[1], region[1])..(Min(b[3], region[3]) - 1))
               \X (Max(b[2], region[2])..(Min(b[4], region[4]) - 1)) : TRUE}

RECURSIVE SumStored(_, _)
SumStored(file_key, cells) ==
    IF cells = {} THEN 0
    ELSE LET c == CHOOSE c \in cells : TRUE
         IN  Stored(file_key, c[1], c[2]) + SumStored(file_key, cells \ {c})

\* The sum of a window with its masked pixels left out, as a masked read
\* would give it.
RECURSIVE SumUnmasked(_, _)
SumUnmasked(file_key, cells) ==
    IF cells = {} THEN 0
    ELSE LET c == CHOOSE c \in cells : TRUE
         IN  (IF Masked(file_key, c[1], c[2]) THEN 0 ELSE Radiance(file_key, c[1], c[2]))
             + SumUnmasked(file_key, cells \ {c})

\* src.read(1, window=...).sum(): every stored value of the window is added.
WindowSum(file_key, region) == SumStored(file_key, Window(file_key, region))

\* What a future can hold.
Raised == [kind |-> "raise"]
None == [kind |-> "None"]
File(file_key, rad_sum) == [kind |-> "file", s3_path |-> file_key, rad_sum |-> rad_sum]

\* How a task can fail: not at all, in rasterio.open, or in src.read.
Failures == {"none", "open", "read"}

\* Line 129: the raster is open and its header (bounds, transform) is read.
reads_header(file_key, region, failure) == failure # "open"

\* Mutant: the window is read whatever the intersection test says.
reads_pixels_always(file_key, region, failure) == failure # "open"

\* Lines 130-131: src.read is issued, after the intersection test on the
\* header returned true.
reads_pixels(file_key, region, failure) ==
    failure # "open" /\ intersected(Bounds(file_key), region)

\* One per-key task, as a function of where its I/O fails.
filter_file_by_region(file_key, region, failure) ==
    IF failure = "open" THEN Raised
    ELSE IF intersected(Bounds(file_key), region)
         THEN IF failure = "read" THEN Raised
              ELSE File(file_key, WindowSum(file_key, region))
         ELSE None

\* ------------------------------------------------- inputs of the fan-out
Keys == 1..MaxKeys

\* Region boxes: one overlapping four tiles, one that overlaps tile 2 and only
\* touches tile 1, one touching tiles along edges and at a corner, one far
\* from every tile.
Regions == {<<1, 1, 3, 3>>, <<2, 0, 3, 1>>, <<0, 0, 4, 2>>, <<50, 50, 51, 51>>}

NoDataValues == {0, 3}

\* Key lists as a listing yields them: no key twice, in ascending order.
KeyLists == UNION {{s \in [1..n -> Keys] : \A i, j \in 1..n : i < j => s[i] < s[j]} : n \in 0..MaxKeys}

Range(s) == {s[i] : i \in DOMAIN s}

\* ------------------------------------------------------ the intersection test
BoxIdle == raster_polygon = <<>> /\ region_polygon = <<>> /\ intersects = FALSE /\ bpc = "idle"

FilterIdle ==
    /\ object_keys = <<>> /\ region_bounds = <<>> /\ nodata = 0
    /\ task = <<>> /\ result = <<>> /\ collected = <<>>
    /\ valid_files = <<>> /\ processed_files = 0 /\ total_files = 0
    /\ fpc = "idle" /\ failed = {}
    /\ header_reads = {} /\ pixel_reads = {}

DailyIdle ==
    /\ day_keys = <<>> /\ chunk_size = 0 /\ futures = <<>> /\ part = <<>>
    /\ part_result = <<>> /\ taken = {} /\ reordered = FALSE
    /\ radiation_sum = 0 /\ dpc = "idle" /\ inflight = <<>> /\ submitted = <<>>

MonthlyIdle ==
    /\ year = 0 /\ month = 0 /\ num_days = 0 /\ day_futures = <<>>
    /\ day_taken = {} /\ day_failed = {} /\ monthly_radiation_sum = 0 /\ mpc = "idle"

\* No output file.
NoFile == [count |-> 0, bands |-> <<>>]

ProcessIdle ==
    /\ dest_exists = FALSE /\ dest_files = <<>> /\ output = NoFile
    /\ output_path = FALSE /\ outcome = "none" /\ downloads = 0 /\ merges = 0
    /\ calls = 0 /\ produced = FALSE /\ returned = "none" /\ ppc = "idle"
    /\ listed = <<>> /\ deleting = FALSE /\ returncode = "none"

\* intersected(src, region_bounds), lines 116-123.
Intersected ==
    /\ bpc = "call"
    /\ bpc' = "done"
    /\ intersects' = intersected(raster_polygon, region_polygon)
    /\ UNCHANGED <<raster_polygon, region_polygon>>
    /\ UNCHANGED notbox

\* ------------------------------------------------------- filter_by_region
\* Lines 136-142: the locals, the pool of total_files threads and one submit
\* per key.  ThreadPoolExecutor(0) raises ValueError.
FilterCall ==
    /\ fpc = "call"
    /\ total_files' = Len(object_keys)
    /\ valid_files' = <<>>
    /\ processed_files' = 0
    /\ IF Len(object_keys) = 0
       THEN /\ fpc' = "raised"
            /\ UNCHANGED task
       ELSE /\ fpc' = "collect"
            /\ task' = [k \in Range(object_keys) |-> "pending"]
    /\ UNCHANGED <<object_keys, region_bounds, nodata, result, collected, failed,
                   header_reads, pixel_reads>>
    /\ UNCHANGED notfilter

\* A worker thread runs the task of one key to its end (lines 125-133); the
\* future then holds the returned value or the exception.
RunTask(k) ==
    /\ k \in DOMAIN task
    /\ task[k] = "pending"
    /\ \E failure \in Failures :
         LET r == filter_file_by_region(k, region_bounds, failure)
         IN  /\ r = Raised => Cardinality(failed) < MaxFail
             /\ (failure # "none") => r = Raised
             /\ result' = (k :> r) @@ result
             /\ failed' = IF r = Raised THEN failed \cup {k} ELSE failed
             /\ header_reads' = IF reads_header(k, region_bounds, failure)
                                 THEN header_reads \cup {k} ELSE header_reads
             /\ pixel_reads' = IF reads_pixels(k, region_bounds, failure)
                                THEN pixel_reads \cup {k} ELSE pixel_reads
    /\ task' = [task EXCEPT ![k] = "done"]
    /\ UNCHANGED <<object_keys, region_bounds, nodata, collected, valid_files,
                   processed_files, total_files, fpc>>
    /\ UNCHANGED notfilter

\* Mutant: None results are appended too.
CollectBody_keepnone(vf, pf, r) ==
    IF r = Raised THEN [raise |-> TRUE, valid_files |-> vf, processed_files |-> pf]
    ELSE [raise |-> FALSE, valid_files |-> Append(vf, r), processed_files |-> pf + 1]

\* Mutant: the counter is advanced inside the `is not None` branch.
CollectBody_skipcount(vf, pf, r) ==
    IF r = Raised THEN [raise |-> TRUE, valid_files |-> vf, processed_files |-> pf]
    ELSE [raise |-> FALSE,
          valid_files |-> IF r # None THEN Append(vf, r) ELSE vf,
          processed_files |-> IF r # None THEN pf + 1 ELSE pf]

\* Lines 145-152, the body of the as_completed loop for one future:
\* future.result() re-raises the task's exception, otherwise the counter is
\* advanced and a result other than None is appended.
CollectBody(vf, pf, r) ==
    IF r = Raised THEN [raise |-> TRUE, valid_files |-> vf, processed_files |-> pf]
    ELSE [raise |-> FALSE,
          valid_files |-> IF r # None THEN Append(vf, r) ELSE vf,
          processed_files |-> pf + 1]

\* as_completed hands over any finished future not yet taken (line 144).
Collect(k) ==
    /\ fpc = "collect"
    /\ k \in DOMAIN task
    /\ task[k] = "done"
    /\ k \notin Range(collected)
    /\ LET b == CollectBody(valid_files, processed_files, result[k])
       IN  /\ valid_files' = b.valid_files
           /\ processed_files' = b.processed_files
           /\ fpc' = IF b.raise THEN "unwind" ELSE "collect"
    /\ collected' = Append(collected, k)
    /\ UNCHANGED <<object_keys, region_bounds, nodata, task, result, total_files, failed,
                   header_reads, pixel_reads>>
    /\ UNCHANGED notfilter

\* Line 154: the loop is exhausted, the pool is shut down and the list returned.
FilterReturn ==
    /\ fpc = "collect"
    /\ Range(collected) = DOMAIN task
    /\ fpc' = "returned"
    /\ UNCHANGED <<object_keys, region_bounds, nodata, task, result, collected,
                   valid_files, processed_files, total_files, failed,
                   header_reads, pixel_reads>>
    /\ UNCHANGED notfilter

\* Mutant: the exception leaves filter_by_region at once, the pool is not
\* waited for.
FilterRaise_nowait ==
    /\ fpc = "unwind"
    /\ fpc' = "raised"
    /\ UNCHANGED <<object_keys, region_bounds, nodata, task, result, collected,
                   valid_files, processed_files, total_files, failed,
                   header_reads, pixel_reads>>
    /\ UNCHANGED notfilter

\* An exception leaves the with block: ThreadPoolExecutor.__exit__ waits for
\* every submitted task, then the exception reaches the caller.
FilterRaise ==
    /\ fpc = "unwind"
    /\ \A k \in DOMAIN task : task[k] = "done"
    /\ fpc' = "raised"
    /\ UNCHANGED <<object_keys, region_bounds, nodata, task, result, collected,
                   valid_files, processed_files, total_files, failed,
                   header_reads, pixel_reads>>
    /\ UNCHANGED notfilter


InitBox ==
    /\ raster_polygon \in Boxes /\ region_polygon \in Boxes
    /\ intersects = FALSE /\ bpc = "call"
    /\ FilterIdle
    /\ DailyIdle
    /\ ProcessIdle
    /\ MonthlyIdle

NextBox == Intersected

SpecBox == InitBox /\ [][NextBox]_vars

InitFilter ==
    /\ BoxIdle
    /\ DailyIdle
    /\ ProcessIdle
    /\ MonthlyIdle
    /\ object_keys \in KeyLists
    /\ region_bounds \in Regions
    /\ nodata \in NoDataValues
    /\ task = <<>> /\ result = <<>> /\ collected = <<>>
    /\ valid_files = <<>> /\ processed_files = 0 /\ total_files = 0
    /\ fpc = "call" /\ failed = {}
    /\ header_reads = {} /\ pixel_reads = {}

NextFilter ==
    \/ FilterCall
    \/ \E k \in Keys : RunTask(k)
    \/ \E k \in Keys : Collect(k)
    \/ FilterReturn
    \/ FilterRaise

SpecFilter == InitFilter /\ [][NextFilter]_vars

\* ------------------------------------------ filter_by_region as one function
\* What the future of a whole filter_by_region call holds when it returns.
Returned(files) == [kind |-> "list", valid_files |-> files]

\* The as_completed loop (lines 144-152) over the futures in the order they
\* are handed over; the first exception ends it.
RECURSIVE CollectAll(_, _, _, _)
CollectAll(order, res, vf, pf) ==
    IF order = <<>> THEN Returned(vf)
    ELSE LET b == CollectBody(vf, pf, res[Head(order)])
         IN  IF b.raise THEN Raised
             ELSE CollectAll(Tail(order), res, b.valid_files, b.processed_files)

\* filter_by_region (lines 135-154) run to its end in a worker process, given
\* the order in which the loop gets the futures and where each task fails.
filter_by_region(file_keys, region, order, fails) ==
    IF Len(file_keys) = 0 THEN Raised
    ELSE CollectAll(order,
                    [k \in Range(file_keys) |-> filter_file_by_region(k, region, fails[k])],
                    <<>>, 0)

\* The orders in which the futures of a key list can be handed over.
Orders(file_keys) ==
    {o \in [1..Len(file_keys) -> Range(file_keys)] :
        \A i, j \in 1..Len(file_keys) : o[i] = o[j] => i = j}

\* The step-by-step thread fan-out and the function above agree.
FilterAgrees ==
    LET fails == [k \in Range(object_keys) |-> IF k \in failed THEN "open" ELSE "none"]
        whole == filter_by_region(object_keys, region_bounds, collected, fails)
    IN  /\ fpc = "returned" => whole = Returned(valid_files)
        /\ fpc = "raised" => whole = Raised

\* ------------------------------------------- calculate_daily_radiation_sum
n_workers == 10

\* round(n / d) of Python 3: to the nearest integer, a half to the even one.
round(n, d) ==
    LET q == n \div d
        r == n % d
    IN  IF 2 * r < d THEN q
        ELSE IF 2 * r > d THEN q + 1
        ELSE IF q % 2 = 0 THEN q ELSE q + 1

\* Lines 189-190: object_keys[i:i + chunk_size] for i in range(0, n_files,
\* chunk_size), for a positive chunk_size.
Chunks(keys, size) ==
    [p \in 1..((Len(keys) + size - 1) \div size) |->
        SubSeq(keys, (p - 1) * size + 1, Min(p * size, Len(keys)))]

\* Mutant: the accumulator is overwritten instead of added to.
Accumulate_last(total, files) ==
    IF files = <<>> THEN total ELSE files[Len(files)].rad_sum

\* Lines 198-199: every rad_sum of one partition's list is added.
RECURSIVE Accumulate(_, _)
Accumulate(total, files) ==
    IF files = <<>> THEN total
    ELSE Accumulate(total + Head(files).rad_sum, Tail(files))

Parts == DOMAIN futures

\* Lines 176-192.  filter_by_prefix raises IndexError on an empty listing
\* (line 55) and range() raises ValueError for a step of 0 (line 189), in
\* both cases before anything is submitted.
DailyCall ==
    /\ dpc = "call"
    /\ radiation_sum' = 0
    /\ chunk_size' = round(Len(day_keys), n_workers)
    /\ IF Len(day_keys) = 0 \/ chunk_size' = 0
       THEN /\ dpc' = "raised"
            /\ UNCHANGED <<futures, part>>
       ELSE /\ dpc' = "collect"
            /\ futures' = Chunks(day_keys, chunk_size')
            /\ part' = [p \in DOMAIN futures' |-> "queued"]
    /\ UNCHANGED <<day_keys, part_result, taken, reordered, region_bounds, nodata, failed>>
    /\ UNCHANGED notdaily

\* The keys of a listing whose raster may fail to open or to read.
Unreliable == 1..MaxFail

\* Line 191: a worker process of the pool runs filter_by_region over one
\* submitted partition, from taking it off the queue to setting its future.
\* The process shares no state with the caller, so the run is one step; its
\* threads finish in any order and some of its tasks may raise.
RunPartition(p) ==
    /\ p \in Parts
    /\ part[p] = "queued"
    /\ \E order \in Orders(futures[p]), fails \in [Range(futures[p]) -> Failures] :
         LET raising == {k \in Range(futures[p]) :
                            filter_file_by_region(k, region_bounds, fails[k]) = Raised}
         IN  /\ \A k \in Range(futures[p]) : fails[k] # "none" => k \in raising
             /\ raising \subseteq Unreliable
             /\ failed' = failed \cup raising
             /\ part_result' = (p :> filter_by_region(futures[p], region_bounds, order, fails))
                                  @@ part_result
    /\ part' = [part EXCEPT ![p] = "done"]
    /\ UNCHANGED <<day_keys, chunk_size, futures, taken, reordered, radiation_sum, dpc,
                   region_bounds, nodata>>
    /\ UNCHANGED notdaily

\* Lines 196-199 for one future: future.result() re-raises what the partition
\* raised, otherwise the partial sums of its list are added.
DailyCollect(p) ==
    /\ dpc = "collect"
    /\ p \in Parts
    /\ part[p] = "done"
    /\ p \notin taken
    /\ taken' = taken \cup {p}
    /\ reordered' = (reordered \/ \E q \in Parts : q < p /\ q \notin taken)
    /\ IF part_result[p] = Raised
       THEN /\ dpc' = "unwind"
            /\ UNCHANGED radiation_sum
       ELSE /\ dpc' = "collect"
            /\ radiation_sum' = Accumulate(radiation_sum, part_result[p].valid_files)
    /\ UNCHANGED <<day_keys, chunk_size, futures, part, part_result,
                   region_bounds, nodata, failed>>
    /\ UNCHANGED notdaily

\* Line 201: every future was taken, the pool is shut down, the total returned.
DailyReturn ==
    /\ dpc = "collect"
    /\ taken = Parts
    /\ dpc' = "returned"
    /\ UNCHANGED <<day_keys, chunk_size, futures, part, part_result, taken, reordered,
                   radiation_sum, region_bounds, nodata, failed>>
    /\ UNCHANGED notdaily

\* An exception leaves the with block: ProcessPoolExecutor.__exit__ waits for
\* every submitted partition, then the exception reaches the caller.
DailyRaise ==
    /\ dpc = "unwind"
    /\ \A p \in Parts : part[p] = "done"
    /\ dpc' = "raised"
    /\ UNCHANGED <<day_keys, chunk_size, futures, part, part_result, taken, reordered,
                   radiation_sum, region_bounds, nodata, failed>>
    /\ UNCHANGED notdaily

\* Listings: the first n tiles of the grid, for every n up to MaxFiles and
\* for one n long enough for partitions of two keys.
MaxAhead == 2
LongListing == 15
Listing(n) == [i \in 1..n |-> i]
Listings == {Listing(n) : n \in (0..MaxFiles) \cup {LongListing}}

InitDaily ==
    /\ BoxIdle
    /\ ProcessIdle
    /\ MonthlyIdle
    /\ object_keys = <<>> /\ task = <<>> /\ result = <<>> /\ collected = <<>>
    /\ valid_files = <<>> /\ processed_files = 0 /\ total_files = 0 /\ fpc = "idle"
    /\ header_reads = {} /\ pixel_reads = {}
    /\ region_bounds \in Regions
    /\ nodata = CHOOSE v \in NoDataValues : v # 0
    /\ failed = {}
    /\ day_keys \in Listings
    /\ chunk_size = 0 /\ futures = <<>> /\ part = <<>> /\ part_result = <<>>
    /\ taken = {} /\ reordered = FALSE /\ radiation_sum = 0 /\ dpc = "call"
    /\ inflight = <<>> /\ submitted = <<>>

NextDaily ==
    \/ DailyCall
    \/ \E p \in Parts : RunPartition(p)
    \/ \E p \in Parts : DailyCollect(p)
    \/ DailyReturn
    \/ DailyRaise

SpecDaily == InitDaily /\ [][NextDaily]_vars

\* ------------------------------------------------ the two pools, worker by worker
\* Mutant: the pool starts a process for every queued partition.
StartPartition_unbounded(p) ==
    /\ p \in Parts
    /\ part[p] = "queued"
    /\ \A q \in Parts : q < p => part[q] # "queued"
    /\ part' = [part EXCEPT ![p] = "running"]
    /\ inflight' = (p :> Range(futures[p])) @@ inflight
    /\ submitted' = (p :> futures[p]) @@ submitted
    /\ UNCHANGED <<day_keys, chunk_size, futures, part_result, taken, reordered,
                   radiation_sum, dpc, region_bounds, nodata, failed>>
    /\ UNCHANGED notpool

\* Lines 187 and 191: a free process of ProcessPoolExecutor(n_workers) takes
\* the oldest queued partition and enters filter_by_region, whose pool of
\* len(file_keys) threads starts one task per key (lines 140-142).
StartPartition(p) ==
    /\ p \in Parts
    /\ part[p] = "queued"
    /\ \A q \in Parts : q < p => part[q] # "queued"
    /\ Cardinality({q \in Parts : part[q] = "running"}) < n_workers
    /\ part' = [part EXCEPT ![p] = "running"]
    /\ inflight' = (p :> Range(futures[p])) @@ inflight
    /\ submitted' = (p :> futures[p]) @@ submitted
    /\ UNCHANGED <<day_keys, chunk_size, futures, part_result, taken, reordered,
                   radiation_sum, dpc, region_bounds, nodata, failed>>
    /\ UNCHANGED notpool

\* A thread of a running partition completes the task of one key (lines
\* 125-133).  filter_by_region leaves its with block only when no task of the
\* pool is left (lines 140-154): the completion of the last task lets the
\* loop end and sets the partition's future to the list or to the exception.
TaskDone(p, k) ==
    /\ p \in Parts
    /\ part[p] = "running"
    /\ k \in inflight[p]
    /\ \E failure \in Failures :
         LET r == filter_file_by_region(k, region_bounds, failure)
         IN  /\ r = Raised => k \in Unreliable
             /\ (failure # "none") => r = Raised
             /\ failed' = IF r = Raised THEN failed \cup {k} ELSE failed
    /\ IF inflight[p] = {k}
       THEN /\ \E order \in Orders(futures[p]) :
                 part_result' = (p :> filter_by_region(futures[p], region_bounds, order,
                                     [j \in Range(futures[p]) |->
                                          IF j \in failed' THEN "open" ELSE "none"]))
                                @@ part_result
            /\ part' = [part EXCEPT ![p] = "done"]
       ELSE UNCHANGED <<part, part_result>>
    /\ inflight' = [inflight EXCEPT ![p] = @ \ {k}]
    /\ UNCHANGED submitted
    /\ UNCHANGED <<day_keys, chunk_size, futures, taken, reordered, radiation_sum, dpc,
                   region_bounds, nodata>>
    /\ UNCHANGED notpool

\* Listings: one too short to be chunked, one long enough for more partitions
\* than worker processes.
PoolListings == {Listing(MaxKeys), Listing(n_workers + 1)}

\* Regions of the pool runs.
PoolRegions == {<<1, 1, 3, 3>>}

InitPool ==
    /\ BoxIdle
    /\ ProcessIdle
    /\ MonthlyIdle
    /\ object_keys = <<>> /\ task = <<>> /\ result = <<>> /\ collected = <<>>
    /\ valid_files = <<>> /\ processed_files = 0 /\ total_files = 0 /\ fpc = "idle"
    /\ header_reads = {} /\ pixel_reads = {}
    /\ region_bounds \in PoolRegions
    /\ nodata = CHOOSE v \in NoDataValues : v # 0
    /\ failed = {}
    /\ day_keys \in PoolListings
    /\ chunk_size = 0 /\ futures = <<>> /\ part = <<>> /\ part_result = <<>>
    /\ taken = {} /\ reordered = FALSE /\ radiation_sum = 0 /\ dpc = "call"
    /\ inflight = <<>> /\ submitted = <<>>

NextPool ==
    \/ DailyCall
    \/ \E p \in Parts : StartPartition(p)
    \/ \E p \in Parts : \E k \in Range(futures[p]) : TaskDone(p, k)
    \/ \E p \in Parts : DailyCollect(p)
    \/ DailyReturn
    \/ DailyRaise

SpecPool == InitPool /\ [][NextPool]_vars

\* ------------------------------------------------------------- process
\* The tiles a recursive download can leave in the directory: any of the
\* MaxTiffs tiles of the day, a tile cut short by a failed copy being corrupt.
Tiles == 1..MaxTiffs
Downloads == UNION {[S -> {"ok", "corrupt"}] : S \in SUBSET Tiles}

\* The longest prefix of the listed files that open and read without error.
RECURSIVE Readable(_, _)
Readable(tiff_files, files) ==
    IF tiff_files = <<>> \/ files[Head(tiff_files)] = "corrupt" THEN <<>>
    ELSE <<Head(tiff_files)>> \o Readable(Tail(tiff_files), files)

\* Mutant: the empty listing is not caught and tiff_files[0] is used.
combine_tiff_files_noguard(exists, files, out, tiff_files, delete) ==
    IF ~exists \/ tiff_files = <<>> \/ files[tiff_files[1]] = "corrupt"
    THEN [outcome |-> "raised", files |-> files, output |-> out]
    ELSE LET written == Readable(tiff_files, files)
         IN  IF Len(written) = Len(tiff_files)
             THEN [outcome |-> "merged",
                   files |-> IF delete THEN <<>> ELSE files,
                   output |-> [count |-> Len(tiff_files), bands |-> written]]
             ELSE [outcome |-> "raised", files |-> files,
                   output |-> [count |-> Len(tiff_files), bands |-> written]]

\* Mutant: the band count of the first source is kept (no meta.update).
combine_tiff_files_onecount(exists, files, out, tiff_files, delete) ==
    IF ~exists THEN [outcome |-> "raised", files |-> files, output |-> out]
    ELSE IF tiff_files = <<>>
    THEN [outcome |-> "nothing", files |-> files, output |-> out]
    ELSE IF files[tiff_files[1]] = "corrupt"
    THEN [outcome |-> "raised", files |-> files, output |-> out]
    ELSE LET written == Readable(tiff_files, files)
         IN  IF Len(written) = Len(tiff_files)
             THEN [outcome |-> "merged",
                   files |-> IF delete THEN <<>> ELSE files,
                   output |-> [count |-> 1, bands |-> SubSeq(written, 1, 1)]]
             ELSE [outcome |-> "raised", files |-> files,
                   output |-> [count |-> 1, bands |-> SubSeq(written, 1, 1)]]

\* Mutant: each source is removed as soon as its band is written.
combine_tiff_files_eager(exists, files, out, tiff_files, delete) ==
    IF ~exists THEN [outcome |-> "raised", files |-> files, output |-> out]
    ELSE IF tiff_files = <<>>
    THEN [outcome |-> "nothing", files |-> files, output |-> out]
    ELSE IF files[tiff_files[1]] = "corrupt"
    THEN [outcome |-> "raised", files |-> files, output |-> out]
    ELSE LET written == Readable(tiff_files, files)
             kept == [f \in DOMAIN files \ Range(written) |-> files[f]]
         IN  IF Len(written) = Len(tiff_files)
             THEN [outcome |-> "merged",
                   files |-> IF delete THEN <<>> ELSE files,
                   output |-> [count |-> Len(tiff_files), bands |-> written]]
             ELSE [outcome |-> "raised",
                   files |-> IF delete THEN kept ELSE files,
                   output |-> [count |-> Len(tiff_files), bands |-> written]]

\* combine_tiff_files (lines 93-114) on a directory holding files, listed by
\* os.listdir in the order tiff_files.  os.listdir raises when the directory
\* is missing; an empty listing returns at line 100; rasterio.open raises on
\* a corrupt file, at line 102 before the output is created or at line 109
\* with the bands written so far left in it; sources are removed at the end.
combine_tiff_files(exists, files, out, tiff_files, delete) ==
    IF ~exists THEN [outcome |-> "raised", files |-> files, output |-> out]
    ELSE IF tiff_files = <<>>
    THEN [outcome |-> "nothing", files |-> files, output |-> out]
    ELSE IF files[tiff_files[1]] = "corrupt"
    THEN [outcome |-> "raised", files |-> files, output |-> out]
    ELSE LET written == Readable(tiff_files, files)
         IN  IF Len(written) = Len(tiff_files)
             THEN [outcome |-> "merged",
                   files |-> IF delete THEN <<>> ELSE files,
                   output |-> [count |-> Len(tiff_files), bands |-> written]]
             ELSE [outcome |-> "raised", files |-> files,
                   output |-> [count |-> Len(tiff_files), bands |-> written]]

\* The orders in which os.listdir can list the .tif files of the directory.
Listdir(files) ==
    {o \in [1..Cardinality(DOMAIN files) -> DOMAIN files] :
        \A i, j \in DOMAIN o : o[i] = o[j] => i = j}

\* What the aws s3 cp of lines 85-86 leaves behind: with exit status 0 every
\* copied tile is whole, otherwise any tile may be missing or cut short.
Downloaded(rc) ==
    IF rc = "ok" THEN {d \in Downloads : \A f \in DOMAIN d : d[f] = "ok"}
    ELSE Downloads

\* Mutant: the download is attempted whether or not the directory exists.
ProcessDownload_always ==
    /\ ppc = "idle"
    /\ calls < MaxCalls
    /\ ppc' = "check"
    /\ dest_exists' = TRUE
    /\ downloads' = downloads + 1
    /\ \E rc \in {"ok", "error"} :
         /\ returncode' = rc
         /\ dest_files' \in Downloaded(rc)
    /\ UNCHANGED <<output, output_path, outcome, merges, calls, produced, returned,
                   listed, deleting>>
    /\ UNCHANGED notprocess

\* Lines 157-162: process calls download_files, which downloads only when the
\* directory is missing and creates it first (lines 83-90).
ProcessDownload ==
    /\ ppc = "idle"
    /\ calls < MaxCalls
    /\ ppc' = "check"
    /\ IF ~dest_exists
       THEN /\ dest_exists' = TRUE
            /\ downloads' = downloads + 1
            /\ \E rc \in {"ok", "error"} :
                 /\ returncode' = rc
                 /\ dest_files' \in Downloaded(rc)
       ELSE UNCHANGED <<dest_exists, downloads, dest_files, returncode>>
    /\ UNCHANGED <<output, output_path, outcome, merges, calls, produced, returned,
                   listed, deleting>>
    /\ UNCHANGED notprocess

\* Lines 164-170: combine_tiff_files(output_filename, destination_path) unless
\* output_path exists, then the filename is returned.
ProcessCombine ==
    /\ ppc = "check"
    /\ ppc' = "idle"
    /\ calls' = calls + 1
    /\ IF ~output_path
       THEN \E tiff_files \in Listdir(dest_files) :
              LET c == combine_tiff_files(dest_exists, dest_files, output, tiff_files, FALSE)
              IN  /\ merges' = merges + 1
                  /\ listed' = tiff_files
                  /\ deleting' = FALSE
                  /\ outcome' = c.outcome
                  /\ dest_files' = c.files
                  /\ output' = c.output
                  /\ returned' = IF c.outcome = "raised" THEN "raise" ELSE "output_filename"
                  /\ produced' = (produced \/ c.outcome = "merged")
       ELSE /\ returned' = "output_filename"
            /\ UNCHANGED <<merges, outcome, dest_files, output, produced, listed,
                           deleting>>
    /\ UNCHANGED <<dest_exists, output_path, downloads, returncode>>
    /\ UNCHANGED notprocess

\* A direct call combine_tiff_files(output_filename, destination_path, delete).
CombineCall(delete) ==
    /\ ppc = "idle"
    /\ calls < MaxCalls
    /\ \E tiff_files \in Listdir(dest_files) :
         LET c == combine_tiff_files(dest_exists, dest_files, output, tiff_files, delete)
         IN  /\ outcome' = c.outcome
             /\ dest_files' = c.files
             /\ output' = c.output
             /\ listed' = tiff_files
    /\ deleting' = delete
    /\ calls' = calls + 1
    /\ UNCHANGED <<dest_exists, output_path, downloads, merges, produced, returned, ppc,
                   returncode>>
    /\ UNCHANGED notprocess

InitProcess ==
    /\ BoxIdle
    /\ FilterIdle
    /\ DailyIdle
    /\ ProcessIdle
    /\ MonthlyIdle

NextProcess ==
    \/ ProcessDownload
    \/ ProcessCombine
    \/ \E delete \in BOOLEAN : CombineCall(delete)

SpecProcess == InitProcess /\ [][NextProcess]_vars

\* ---------------------------------------------------- filter_by_region claims
\* The keys of the candidate list whose raster box and the region box have a
\* point in common.
Surviving(keys, region) == {k \in Range(keys) : SharePoint(Bounds(k), region)}

\* The keys named by the entries of a result list.
Paths(files) == {files[i].s3_path : i \in DOMAIN files}

\* C1: whenever filter_by_region returns, its list has one entry for exactly
\* the candidate keys whose raster bounding box intersects the region: none
\* missing, none extra, none twice, whatever order the tasks completed in.
C1_FilterExact ==
    fpc = "returned" =>
        /\ \A i \in DOMAIN valid_files : valid_files[i].kind = "file"
        /\ Paths(valid_files) = Surviving(object_keys, region_bounds)
        /\ Len(valid_files) = Cardinality(Surviving(object_keys, region_bounds))

\* C1 witness: a call over three or more keys returned, keeping some and
\* dropping some, after taking the futures in another order than submitted.
C1_Witness ==
    /\ fpc = "returned"
    /\ Len(object_keys) >= 3
    /\ Len(valid_files) >= 2
    /\ Len(valid_files) < Len(object_keys)
    /\ collected[1] # object_keys[1]

\* C2: a per-key task that raises does not abort the batch: the call does not
\* raise, and when it returns its list holds every key whose task produced a
\* file and not the failed key.
C2_FailureNotAborting ==
    (\E k \in DOMAIN result : result[k] = Raised) =>
        /\ fpc \notin {"unwind", "raised"}
        /\ fpc = "returned" =>
              Paths(valid_files) = {k \in DOMAIN result : result[k].kind = "file"}

\* C10: the sum a task returns for its window leaves out the masked pixels,
\* whatever value the raster stores for them.
C10_MaskedExcluded ==
    \A k \in DOMAIN result :
        result[k].kind = "file" =>
            result[k].rad_sum = SumUnmasked(k, Window(k, region_bounds))

\* ------------------------------------------------- intersection test claims
\* C8: intersected is true exactly when the two closed boxes have a point in
\* common (boxes that touch along an edge or at a corner included), and the
\* test gives the same answer with its arguments exchanged.
C8_IntersectsClosedSymmetric ==
    bpc = "done" =>
        /\ intersects = SharePoint(raster_polygon, region_polygon)
        /\ intersects = intersected(region_polygon, raster_polygon)

\* C8 witness: the test has answered TRUE for two boxes that meet in a single
\* corner point.
C8_Witness ==
    /\ bpc = "done"
    /\ intersects
    /\ raster_polygon[3] = region_polygon[1]
    /\ raster_polygon[4] = region_polygon[2]

\* ------------------------------------- calculate_daily_radiation_sum claims
\* The sum computed sequentially, key after key in listing order, over the
\* keys outside skip whose raster box and the region box have a point in common.
RECURSIVE SequentialSum(_, _, _)
SequentialSum(keys, region, skip) ==
    IF keys = <<>> THEN 0
    ELSE (IF Head(keys) \notin skip /\ SharePoint(Bounds(Head(keys)), region)
          THEN WindowSum(Head(keys), region) ELSE 0)
         + SequentialSum(Tail(keys), region, skip)

\* The submitted partitions laid end to end.
RECURSIVE Flatten(_)
Flatten(chunks) ==
    IF chunks = <<>> THEN <<>>
    ELSE Head(chunks) \o Flatten(Tail(chunks))

\* C3: a task that raises in one partition neither ends the sibling
\* partitions nor loses their results: the call does not raise, and the total
\* it returns is the sum over the intersecting keys whose task did not raise.
C3_FailureKeepsSiblings ==
    failed # {} =>
        /\ dpc \notin {"unwind", "raised"}
        /\ dpc = "returned" =>
              radiation_sum = SequentialSum(day_keys, region_bounds, failed)

\* C4: the returned total does not depend on the order in which the per-key
\* tasks and the partition futures complete: it is always the sum computed
\* sequentially over the same keys.
C4_OrderIndependent ==
    dpc = "returned" =>
        radiation_sum = SequentialSum(day_keys, region_bounds, {})

\* C4 witness: a positive total was returned after a partition future was
\* taken ahead of an earlier one, and one partition's own list is in the
\* reverse of the key order.
C4_Witness ==
    /\ dpc = "returned"
    /\ reordered
    /\ radiation_sum > 0
    /\ \E p \in Parts :
          /\ Len(part_result[p].valid_files) = 2
          /\ part_result[p].valid_files[1].s3_path > part_result[p].valid_files[2].s3_path

\* C5: for a non-empty listing of any length the submitted partitions hold
\* every key exactly once, and the call returns the exact sum of the windowed
\* sums of the intersecting keys.
C5_CoverAndExactSum ==
    (day_keys # <<>> /\ dpc # "call" /\ failed = {}) =>
        /\ dpc # "raised"
        /\ Flatten(futures) = day_keys
        /\ dpc = "returned" =>
              radiation_sum = SequentialSum(day_keys, region_bounds, {})

\* C6: for a non-empty listing none of whose rasters intersects the region the
\* call returns the sum zero and raises nothing.
C6_NoSurvivorZero ==
    (/\ day_keys # <<>>
     /\ Surviving(day_keys, region_bounds) = {}
     /\ failed = {}
     /\ dpc \in {"returned", "raised"}) =>
        /\ dpc = "returned"
        /\ radiation_sum = 0

\* ------------------------------------------------------------ process claims
\* C7: once a process call has ended with its output file written, a later
\* process call downloads nothing, does not invoke combine_tiff_files again
\* and returns the same filename.
C7_Idempotent ==
    [][produced =>
          /\ downloads' = downloads
          /\ merges' = merges
          /\ (ppc = "check" /\ ppc' = "idle") => returned' = "output_filename"]_vars

\* This step runs combine_tiff_files: from process, or as a direct call.
CombineRuns ==
    \/ ppc = "check" /\ ppc' = "idle" /\ ~output_path
    \/ ppc = "idle" /\ calls' = calls + 1

\* C9: combine_tiff_files on a directory without any .tif file reports that
\* there is nothing to merge: it raises nothing, writes no output file and
\* removes no file.
C9_NothingToMerge ==
    [][(CombineRuns /\ dest_exists /\ DOMAIN dest_files = {}) =>
          /\ outcome' = "nothing"
          /\ output' = output
          /\ dest_files' = dest_files
          /\ ppc = "check" => returned' = "output_filename"]_vars

\* C9 witness: process has run combine_tiff_files on the directory it created
\* and an empty download left without tiles; nothing was merged or written.
C9_Witness ==
    /\ outcome = "nothing"
    /\ dest_exists
    /\ merges >= 1
    /\ output = NoFile
    /\ returned = "output_filename"


\* --------------------------------------------------------- partition claims
\* C11: whatever the listing length, the keys are submitted as exactly
\* n_workers (ten) partitions.
C11_TenPartitions ==
    futures # <<>> => Len(futures) = n_workers


\* --------------------------------------------------------- per-key task claims
\* C12: a task issues its windowed pixel read only once the intersection test
\* on the opened raster's header has returned true; for an opened raster that
\* does not intersect the region no pixel read is issued and the task returns
\* None.
C12_ReadAfterTest ==
    /\ \A k \in pixel_reads :
          k \in header_reads /\ SharePoint(Bounds(k), region_bounds)
    /\ \A k \in DOMAIN result :
          (k \in header_reads /\ ~ SharePoint(Bounds(k), region_bounds)) =>
              k \notin pixel_reads /\ result[k] = None

\* C12 witness: one task has returned None for an opened raster outside the
\* region without reading pixels, another has read the window of a raster
\* inside it.
C12_Witness ==
    /\ \E k \in DOMAIN result :
          /\ k \in header_reads
          /\ ~ SharePoint(Bounds(k), region_bounds)
          /\ result[k] = None
    /\ \E k \in pixel_reads : result[k].kind = "file"


\* ------------------------------------------------------------- pool claims
Running == {p \in Parts : part[p] = "running"}

PoolWaits ==
    /\ \A p \in Parts : part[p] = "done" => (p \in DOMAIN inflight /\ inflight[p] = {})
    /\ dpc \in {"returned", "raised"} => \A p \in Parts : part[p] = "done"

\* C14: filter_by_region never ends, by return or by exception, while a task
\* it submitted is incomplete: with one task that never completes the call
\* stays blocked for ever.
C14_BlockedByStalledTask ==
    (fpc \in {"returned", "raised"} /\ object_keys # <<>>) =>
        /\ DOMAIN task = Range(object_keys)
        /\ \A k \in DOMAIN task : task[k] = "done"

\* C14 witness: every future but one has been taken and the call waits for
\* the one task that is still incomplete.
C14_Witness ==
    /\ fpc = "collect"
    /\ Len(object_keys) >= 3
    /\ \E k \in DOMAIN task :
          /\ task[k] = "pending"
          /\ Range(collected) = DOMAIN task \ {k}


\* C15: when combine_tiff_files finds K >= 1 source rasters it writes one
\* output raster with exactly K bands, and band i holds the first band of the
\* i-th listed source, each source contributing exactly one band.
C15_IndexPack ==
    [][(/\ CombineRuns
        /\ dest_exists
        /\ DOMAIN dest_files # {}
        /\ \A f \in DOMAIN dest_files : dest_files[f] = "ok") =>
          /\ outcome' = "merged"
          /\ listed' \in Listdir(dest_files)
          /\ output'.count = Cardinality(DOMAIN dest_files)
          /\ output'.bands = listed'
          /\ \A f \in DOMAIN dest_files :
                Cardinality({i \in DOMAIN output'.bands : output'.bands[i] = f}) = 1]_vars

\* C15 witness: two sources, listed in descending order of their names, have
\* been merged into a two-band output in that order.
C15_Witness ==
    /\ outcome = "merged"
    /\ Len(listed) >= 2
    /\ listed[1] > listed[2]
    /\ output.count = Len(listed)
    /\ output.bands = listed

\* C16: combine_tiff_files removes source files only after a successful
\* merge: whenever a call removes a file, delete was set, every band had been
\* written and all listed sources go; a call that fails leaves every source
\* in place; with delete=False nothing is removed.
C16_DeleteAfterMerge ==
    [][CombineRuns =>
          /\ dest_files' # dest_files =>
                /\ deleting'
                /\ outcome' = "merged"
                /\ output'.count = Len(listed')
                /\ output'.bands = listed'
                /\ DOMAIN dest_files' = DOMAIN dest_files \ Range(listed')
          /\ outcome' = "raised" => dest_files' = dest_files
          /\ ~ deleting' => dest_files' = dest_files]_vars

\* C16 witness: a call with delete=True failed on its second source after
\* writing the first band, and both sources are still in the directory.
C16_Witness ==
    /\ deleting
    /\ outcome = "raised"
    /\ Len(output.bands) >= 1
    /\ output.bands # listed
    /\ Range(listed) = DOMAIN dest_files
    /\ Cardinality(DOMAIN dest_files) >= 2


\* C20: the download_files step of a process call attempts a download exactly
\* when the destination directory does not exist and leaves the directory in
\* place; no other step downloads, so at most one download is ever attempted
\* and no step downloads again after a download that ended in error.
C20_DownloadOnce ==
    [][/\ (ppc = "idle" /\ ppc' = "check") =>
             /\ (downloads' = downloads + 1) <=> ~ dest_exists
             /\ dest_exists => (downloads' = downloads /\ dest_files' = dest_files)
             /\ dest_exists'
       /\ downloads' # downloads => (ppc = "idle" /\ ppc' = "check")
       /\ downloads' <= 1
       /\ returncode # "none" => (downloads' = downloads /\ returncode' = returncode)]_vars

\* C20 witness: the download of the first process call ended in error, a
\* second process call has run to its end, and one download was attempted.
C20_Witness ==
    /\ returncode = "error"
    /\ merges >= 2
    /\ ppc = "idle"
    /\ downloads = 1


\* The positions of collected whose future.result() handed over a value.
Obtained == {i \in DOMAIN collected : result[collected[i]] # Raised}

\* The positions of collected whose future held a file record.
Kept == {i \in DOMAIN collected : result[collected[i]] \notin {Raised, None}}

\* What the collecting loop has built agrees with the futures it has taken.
Counted ==
    /\ \A i, j \in DOMAIN collected : collected[i] = collected[j] => i = j
    /\ processed_files = Cardinality(Obtained)
    /\ processed_files <= total_files
    /\ Len(valid_files) = Cardinality(Kept)
    /\ \A i, j \in DOMAIN valid_files : valid_files[i] = valid_files[j] => i = j
    /\ \A i \in Kept : \E j \in DOMAIN valid_files : valid_files[j] = result[collected[i]]
    /\ fpc = "returned" => processed_files = total_files

\* C17: a worker task of filter_by_region leaves valid_files and
\* processed_files alone; in every interleaving processed_files is the number
\* of futures whose result the loop has obtained, it never exceeds
\* total_files, valid_files holds each obtained file record exactly once, and
\* on normal return processed_files = total_files.
C17_OnlyCollectorWrites ==
    /\ []Counted
    /\ [][(\E k \in DOMAIN task : task[k] = "pending" /\ task'[k] = "done") =>
              (valid_files' = valid_files /\ processed_files' = processed_files)]_vars

\* C17 witness: a call over three or more keys has returned after taking the
\* futures out of submission order, some kept and some dropped.
C17_Witness ==
    /\ fpc = "returned"
    /\ total_files >= 3
    /\ processed_files = total_files
    /\ collected[1] > collected[2]
    /\ Len(valid_files) >= 1
    /\ Len(valid_files) < total_files


\* C19: when no per-key task raises, calculate_daily_radiation_sum on a
\* non-empty listing ends by returning a total: a call that has ended has
\* returned, it has not raised.
C19_EndsWithTotal ==
    (day_keys # <<>> /\ failed = {} /\ dpc \in {"returned", "raised"}) =>
        dpc = "returned"


\* ------------------------------------------- calculate_monthly_radiation_sum
\* datetime.date of the standard library, as line 207 uses it: the proleptic
\* Gregorian ordinal of a date, and the ValueError for a month outside 1..12 or
\* a day outside the month.
is_leap(y) == y % 4 = 0 /\ (y % 100 # 0 \/ y % 400 = 0)

days_before_year(y) == (y - 1) * 365 + (y - 1) \div 4 - (y - 1) \div 100 + (y - 1) \div 400

DAYS_IN_MONTH == <<31, 28, 31, 30, 31, 30, 31, 31, 30, 31, 30, 31>>

days_in_month(y, m) == IF m = 2 /\ is_leap(y) THEN 29 ELSE DAYS_IN_MONTH[m]

RECURSIVE days_before_month(_, _)
days_before_month(y, m) ==
    IF m = 1 THEN 0 ELSE days_before_month(y, m - 1) + days_in_month(y, m - 1)

ValidDate(y, m, d) == m \in 1..12 /\ d >= 1 /\ d <= days_in_month(y, m)

toordinal(y, m, d) == days_before_year(y) + days_before_month(y, m) + d

\* The years and months a call is made for.
Years == {1900, 2000, 2023, 2024}
Months == 1..12

\* What the daily task of a day returns (line 217) when it does not raise.
DayTotal(y, m, d) == (d * m + y) % 4

\* The days whose daily task can raise.
UnreliableDays == 1..MaxFail

\* Lines 205-214: num_days from the first days of this month and the next,
\* then one submit per day of range(1, num_days + 1).  datetime.date raises
\* ValueError when month + 1 is not a month.
MonthlyCall ==
    /\ mpc = "call"
    /\ IF ~ (ValidDate(year, month + 1, 1) /\ ValidDate(year, month, 1))
       THEN /\ mpc' = "raised"
            /\ UNCHANGED <<num_days, day_futures>>
       ELSE /\ num_days' = toordinal(year, month + 1, 1) - toordinal(year, month, 1)
            /\ day_futures' = [i \in 1..num_days' |-> i]
            /\ mpc' = "collect"
    /\ UNCHANGED <<year, month, day_taken, day_failed, monthly_radiation_sum>>
    /\ UNCHANGED notmonthly

\* Lines 216-218: as_completed hands over a finished daily future, here one
\* of the MaxAhead earliest days not yet taken; future.result() re-raises the
\* exception of a daily task, otherwise the daily sum is added.
MonthlyCollect(day) ==
    /\ mpc = "collect"
    /\ day \in Range(day_futures) \ day_taken
    /\ Cardinality({e \in Range(day_futures) \ day_taken : e < day}) < MaxAhead
    /\ day_taken' = day_taken \cup {day}
    /\ \E raises \in BOOLEAN :
         /\ raises => day \in UnreliableDays
         /\ IF raises
            THEN /\ day_failed' = day_failed \cup {day}
                 /\ mpc' = "raised"
                 /\ UNCHANGED monthly_radiation_sum
            ELSE /\ monthly_radiation_sum' =
                        monthly_radiation_sum + DayTotal(year, month, day)
                 /\ UNCHANGED <<day_failed, mpc>>
    /\ UNCHANGED <<year, month, num_days, day_futures>>
    /\ UNCHANGED notmonthly

\* Line 220: every future has been taken, the sum is returned.
MonthlyReturn ==
    /\ mpc = "collect"
    /\ day_taken = Range(day_futures)
    /\ mpc' = "returned"
    /\ UNCHANGED <<year, month, num_days, day_futures, day_taken, day_failed,
                   monthly_radiation_sum>>
    /\ UNCHANGED notmonthly

InitMonthly ==
    /\ BoxIdle
    /\ FilterIdle
    /\ DailyIdle
    /\ ProcessIdle
    /\ year \in Years /\ month \in Months
    /\ num_days = 0 /\ day_futures = <<>> /\ day_taken = {} /\ day_failed = {}
    /\ monthly_radiation_sum = 0 /\ mpc = "call"

NextMonthly ==
    \/ MonthlyCall
    \/ \E day \in 1..31 : MonthlyCollect(day)
    \/ MonthlyReturn

SpecMonthly == InitMonthly /\ [][NextMonthly]_vars

\* The lengths of the calendar months, Gregorian leap rule.
CalendarDays(y, m) ==
    IF m \in {4, 6, 9, 11} THEN 30
    ELSE IF m # 2 THEN 31
    ELSE IF y % 400 = 0 THEN 29
    ELSE IF y % 100 = 0 THEN 28
    ELSE IF y % 4 = 0 THEN 29
    ELSE 28

RECURSIVE SumOfDays(_, _, _)
SumOfDays(y, m, n) == IF n = 0 THEN 0 ELSE SumOfDays(y, m, n - 1) + DayTotal(y, m, n)

\* What C18 says of a call for the month m.
MonthlyAsClaimed(m) ==
    (month = m /\ mpc # "call") =>
        /\ mpc = "raised" => day_failed # {}
        /\ day_futures = [i \in 1..CalendarDays(year, month) |-> i]
        /\ day_taken \subseteq Range(day_futures)
        /\ mpc = "returned" =>
              monthly_radiation_sum = SumOfDays(year, month, CalendarDays(year, month))

\* C18: for every year and every month 1..12 the call submits exactly one
\* daily task for each calendar day of the month and returns the sum of the
\* daily sums, in whatever order the daily tasks complete.
C18_OneTaskPerDay ==
    \A m \in Months : MonthlyAsClaimed(m)

\* The months January to November do behave as C18 says.
MonthlyUpToNovember ==
    \A m \in Months \ {12} : MonthlyAsClaimed(m)

====
